---- MODULE Spec2Model ----
(***************************************************************************)
(* The store of src/index.ts: create(createState) with its closure state   *)
(* (state, listeners) and the operations setState, getState, subscribe,    *)
(* unsubscribe and destroy.  JavaScript runs one call at a time, so the    *)
(* only interleaving is reentrancy: listeners.forEach calls user code (a   *)
(* listener), which may call the store again before it returns.  The call  *)
(* stack is therefore part of the state: `stack` holds the frames of the   *)
(* running initializer, of the running notification passes (forEach of     *)
(* line 62) and of the running user listeners.  User code (the script at   *)
(* top level, the initializer, a listener body) is the environment: where  *)
(* it runs, it may call any operation of the api with any input.           *)
(*                                                                         *)
(* Spec is that store with its callers.  SpecHook adds the subscription    *)
(* object of useStore (lines 96-134), driven by the framework's renders,   *)
(* registration, callback and reads.  SpecTwo runs two stores made by two  *)
(* calls of create side by side.                                           *)
(***************************************************************************)
EXTENDS Integers, Sequences, FiniteSets, TLC

\* ------------------------------------------------------------------ bounds
\* calls of the api (setState, subscribe, unsubscribe, destroy) that user
\* code makes in one behaviour
MaxCalls == 4

\* ------------------------------------------------------------------ values
Keys == {"a", "b"}
Vals == {0, 1, 2}
\* reading a key an object does not have gives undefined
Absent == -1
Contents == [Keys -> Vals \cup {Absent}]
Empty == [k \in Keys |-> Absent]

\* JavaScript values: undefined, a number, an object (identity ref, content obj)
Undef == [t |-> "undef", n |-> 0, o |-> Empty]
Null == [t |-> "null", n |-> 0, o |-> Empty]
\* an Error object
Err == [t |-> "error", n |-> 0, o |-> Empty]
Num(v) == [t |-> "num", n |-> v, o |-> Empty]
Obj(r, c) == [t |-> "obj", n |-> r, o |-> c]

\* s.k for an object s
Prop(s, k) == IF s.o[k] = Absent THEN Undef ELSE Num(s.o[k])

\* the result of a user function: a value, or an exception (the value thrown)
Ret(v) == [ok |-> TRUE, v |-> v]
ThrowValue(x) == [ok |-> FALSE, v |-> x]
Throw == ThrowValue(Err)
\* if (x) of JavaScript, for the values of the model
Truthy(x) == x.t \in {"obj", "error"} \/ (x.t = "num" /\ x.n # 0)

\* ------------------------------------------- user functions (the inputs)
\* The selectors a caller may pass (StateSelector).  "getState" is the
\* default of line 70, s => s.  "a" is s => s.a, which raises a TypeError
\* when the state is undefined.  "b" is s => { if (s.b === undefined) throw
\* new Error(...); return s.b }: a selector that rejects a state without the
\* key.  "bu" is the same selector with a bare `throw undefined`.
Selectors == {"getState", "a", "b", "bu"}
Selector(s, st) ==
    CASE s = "getState" -> Ret(st)
      [] s = "a" -> IF st.t = "obj" THEN Ret(Prop(st, "a")) ELSE Throw
      [] s = "b" -> IF st.t = "obj" /\ st.o["b"] # Absent
                    THEN Ret(Prop(st, "b")) ELSE Throw
      [] s = "bu" -> IF st.t = "obj" /\ st.o["b"] # Absent
                     THEN Ret(Prop(st, "b")) ELSE ThrowValue(Undef)

\* The equality functions a caller may pass (EqualityChecker).  "is" is the
\* default of line 71, Object.is.  "close" is a tolerance comparison,
\* (x, y) => { if (typeof y !== 'number') throw ...; return Math.abs(x - y) <= 1 }:
\* it throws on a slice that is no number, and Math.abs(undefined - y) is NaN.
EqualityFns == {"is", "close"}
Abs(i) == IF i < 0 THEN 0 - i ELSE i
EqualityFn(e, x, y) ==
    CASE e = "is" -> Ret(x = y)
      [] e = "close" -> IF y.t # "num" THEN Throw
                        ELSE IF x.t # "num" THEN Ret(FALSE)
                        ELSE Ret(Abs(x.n - y.n) <= 1)

\* The (selector, equalityFn) pairs a caller subscribes with.
Subscriptions ==
    {<<"getState", "is">>, <<"a", "is">>, <<"a", "close">>, <<"b", "is">>}

\* The objects a caller writes as a partial or returns from the initializer.
Content(a, b) == [k \in Keys |-> IF k = "a" THEN a ELSE b]
PartialObjs == {Content(1, Absent), Content(2, Absent), Content(Absent, 1)}
InitObjs == {Content(0, 0), Content(0, Absent)}

\* The partials of setState (PartialState): an object literal, the object
\* getState() returned, or a function of the state returning a new object,
\* the state itself, or nothing.
Partials ==
    [kind : {"obj", "fnObj"}, c : PartialObjs]
    \cup [kind : {"state", "fnState", "fnVoid"}, c : {Empty}]

\* ------------------------------------------------------------------ state
VARIABLES
    phase,      \* "new": create not called; "init": createState running; "ready"
    state,      \* let state (line 51): undefined or an object
    listeners,  \* the Set of line 52 as its entry list, in insertion order
    stack,      \* the call stack: initializer, forEach passes, user listeners
    nextRef,    \* the identity of the next object allocated
    calls,      \* the calls of the api made so far
    initCalls,  \* how often createState has been invoked
    expect,     \* the fold of the candidates of the merging setState calls
    last,       \* what the last step did
    hook,       \* the subscription object of useStore (lines 100-131)
    two         \* two stores made by two calls of create

vars ==
    <<phase, state, listeners, stack, nextRef, calls, initCalls, expect, last,
      hook, two>>
\* the variables of the one store that the operations below work on
store == <<phase, state, listeners, stack, nextRef, calls, initCalls, expect, last>>

NoRegs == {}
Frame(kind, reg, mode, old, start) ==
    [kind |-> kind, reg |-> reg, mode |-> mode, idx |-> 0, old |-> old,
     start |-> start, vis |-> NoRegs, errs |-> NoRegs, cut |-> FALSE]
Event(op, reg, v, replace) ==
    [op |-> op, reg |-> reg, v |-> v, replace |-> replace,
     start |-> NoRegs, vis |-> NoRegs, cut |-> FALSE]

Top == stack[Len(stack)]
Push(f) == Append(stack, f)
Pop == SubSeq(stack, 1, Len(stack) - 1)
SetTop(f) == [stack EXCEPT ![Len(stack)] = f]

\* the registrations in the Set
InSet(ls) == {i \in 1..Len(ls) : ls[i].st = "in"}

\* user code is running: the script at top level, the initializer or a listener
UserCode ==
    \/ phase = "ready" /\ stack = <<>>
    \/ stack # <<>> /\ Top.kind \in {"init", "listener"}

\* user code calls the api
Call == UserCode /\ calls < MaxCalls /\ calls' = calls + 1

\* no subscription object yet: useStore has not been rendered
NoHook ==
    [made |-> FALSE, sel |-> "getState", eq |-> "is", slice |-> Undef,
     errored |-> FALSE, reg |-> 0, ran |-> FALSE,
     rd |-> [was |-> FALSE, ret |-> Ret(Undef)]]

\* a closure of create that no call has made yet
NoStore == [state |-> Undef, listeners |-> <<>>, owner |-> <<>>]
Stores == {1, 2}
NoTwo ==
    [made |-> {}, cells |-> [c \in Stores |-> NoStore], ref |-> 1, steps |-> 0,
     acted |-> [store |-> 0, op |-> "none", called |-> {}]]

Init ==
    /\ phase = "new"
    /\ state = Undef
    /\ listeners = <<>>
    /\ stack = <<>>
    /\ nextRef = 1
    /\ calls = 0
    /\ initCalls = 0
    /\ expect = [pure |-> FALSE, c |-> Empty]
    /\ last = Event("none", 0, Undef, FALSE)
    /\ hook = NoHook
    /\ two = NoTwo

\* ---------------------------------------------------------------- create
\* create (lines 48-53, 136-137) up to the call of createState: the
\* initializer starts to run, with setState, getState and api in its hands.
Create ==
    /\ phase = "new"
    /\ phase' = "init"
    /\ stack' = <<Frame("init", 0, "", Undef, NoRegs)>>
    /\ initCalls' = initCalls + 1
    /\ last' = Event("create", 0, Undef, FALSE)
    /\ UNCHANGED <<state, listeners, nextRef, calls, expect>>

\* faulty variant: a state the initializer set through the setter is kept
InitAssignKeepsSet(st, ret) == IF st.t = "obj" THEN st ELSE ret

\* state = createState(setState, getState, api) (line 137): the value the
\* initializer returns is assigned to state, and create returns (line 139).
InitAssign(st, ret) == ret

InitReturn(c) ==
    /\ phase = "init"
    /\ Len(stack) = 1
    /\ LET ret == Obj(nextRef, c) IN
        /\ state' = InitAssign(state, ret)
        /\ last' = Event("initret", 0, ret, FALSE)
    /\ nextRef' = nextRef + 1
    /\ phase' = "ready"
    /\ stack' = <<>>
    /\ expect' = [pure |-> TRUE, c |-> c]
    /\ UNCHANGED <<listeners, calls, initCalls>>

\* -------------------------------------------------------------- setState
\* line 55: typeof partial === 'function' ? partial(state) : partial.
\* An object literal is a new object, of identity ref.
NextState(partial, st, ref) ==
    CASE partial.kind \in {"obj", "fnObj"} -> Obj(ref, partial.c)
      [] partial.kind \in {"state", "fnState"} -> st
      [] partial.kind = "fnVoid" -> Undef

\* faulty variant: the sources in the wrong order, Object.assign({}, nextState, state)
AssignStateWins(st, next, ref) ==
    Obj(ref, [k \in Keys |->
        IF st.t = "obj" /\ st.o[k] # Absent THEN st.o[k]
        ELSE IF next.t = "obj" THEN next.o[k]
        ELSE Absent])

\* Object.assign({}, state, nextState) (line 60): a new object of identity
\* ref; undefined sources are skipped, later sources win.
Assign(st, next, ref) ==
    Obj(ref, [k \in Keys |->
        IF next.t = "obj" /\ next.o[k] # Absent THEN next.o[k]
        ELSE IF st.t = "obj" THEN st.o[k]
        ELSE Absent])

\* faulty variant: replace is ignored
NewStateAlwaysMerge(st, next, replace, ref) == Assign(st, next, ref)

\* lines 57-61
NewState(st, next, replace, ref) ==
    IF replace THEN next ELSE Assign(st, next, ref)

\* faulty variant: the guard of line 56 is missing
ChangedAlways(st, next) == TRUE

\* line 56
Changed(st, next) == next # st

\* the expected content after one more merging call (the claim's fold):
\* each key holds the value of the last candidate that contained it
FoldKey(c, cand, k) == IF cand[k] # Absent THEN cand[k] ELSE c[k]
Fold(partial, replace) ==
    IF expect.pure /\ ~replace /\ partial.kind # "fnVoid"
    THEN LET cand == IF partial.kind \in {"obj", "fnObj"} THEN partial.c ELSE state.o
         IN [pure |-> TRUE, c |-> [k \in Keys |-> FoldKey(expect.c, cand, k)]]
    ELSE [pure |-> FALSE, c |-> Empty]

\* faulty variant: a reentrancy guard, a setState called while a pass runs
\* assigns the state and leaves the notification to the running pass
SetStateGuarded(partial, replace) ==
    /\ Call
    /\ LET next == NextState(partial, state, nextRef) IN
        IF Changed(state, next)
        THEN /\ state' = NewState(state, next, replace, nextRef)
             /\ nextRef' = IF state'.t = "obj" THEN nextRef + 1 ELSE nextRef
             /\ stack' = IF \E k \in 1..Len(stack) : stack[k].kind = "pass"
                         THEN stack
                         ELSE Push(Frame("pass", 0, "", state, InSet(listeners)))
             /\ last' = Event("set", 0, next, replace)
        ELSE /\ UNCHANGED <<state, nextRef, stack>>
             /\ last' = Event("setskip", 0, next, replace)
    /\ expect' = Fold(partial, replace)
    /\ UNCHANGED <<phase, listeners, initCalls>>

\* setState (lines 54-64) up to the start of listeners.forEach; the pass
\* itself is the frame pushed here, stepped by Notify and ended by PassEnd.
\* In the merge the literal is dropped, so its identity serves the result.
SetState(partial, replace) ==
    /\ Call
    /\ LET next == NextState(partial, state, nextRef) IN
        IF Changed(state, next)
        THEN /\ state' = NewState(state, next, replace, nextRef)
             /\ nextRef' = IF state'.t = "obj" THEN nextRef + 1 ELSE nextRef
             /\ stack' = Push(Frame("pass", 0, "", state, InSet(listeners)))
             /\ last' = Event("set", 0, next, replace)
        ELSE /\ UNCHANGED <<state, nextRef, stack>>
             /\ last' = Event("setskip", 0, next, replace)
    /\ expect' = Fold(partial, replace)
    /\ UNCHANGED <<phase, listeners, initCalls>>

\* ---------------------------------------------------- the notification pass
\* Set.prototype.forEach visits the entries in insertion order, skips the
\* entries deleted before it reaches them and visits the entries appended
\* while it runs: the next entry is the first one in the Set after idx.
\* faulty variant: forEach over a copy of the registry made when the pass started
PendingOfCopy(f, ls) == {i \in f.start : i > f.idx}

Pending(f, ls) == {i \in InSet(ls) : i > f.idx}
NextEntry(f, ls) == CHOOSE i \in Pending(f, ls) : \A j \in Pending(f, ls) : i <= j

\* listenerToAdd (lines 74-86) up to its call of the listener: what it
\* calls the listener with, if it does, and the slice it caches.
\* faulty variant: the equality function is not consulted
ListenerToAddNoEquality(e, st) ==
    LET r == Selector(e.sel, st) IN
    IF ~r.ok THEN [op |-> "error", slice |-> e.slice]
    ELSE [op |-> "call", slice |-> r.v]

\* faulty variant: the slice is cached before the equality function is called
ListenerToAddCachesEarly(e, st) ==
    LET r == Selector(e.sel, st) IN
    IF ~r.ok THEN [op |-> "error", slice |-> e.slice]
    ELSE LET q == EqualityFn(e.eq, e.slice, r.v) IN
         IF ~q.ok THEN [op |-> "error", slice |-> r.v]
         ELSE IF ~q.v THEN [op |-> "call", slice |-> r.v]
         ELSE [op |-> "skip", slice |-> r.v]

\* faulty variant: the selector is applied to the state the running pass
\* replaced, not to the state held when the listener is called
ListenerToAddOldState(e, st) ==
    LET r == Selector(e.sel, Top.old) IN
    IF ~r.ok THEN [op |-> "error", slice |-> e.slice]
    ELSE LET q == EqualityFn(e.eq, e.slice, r.v) IN
         IF ~q.ok THEN [op |-> "error", slice |-> e.slice]
         ELSE IF ~q.v THEN [op |-> "call", slice |-> r.v]
         ELSE [op |-> "skip", slice |-> e.slice]

\* faulty variant: the new slice is passed to the listener but not cached
ListenerToAddKeepsCache(e, st) ==
    LET r == Selector(e.sel, st) IN
    IF ~r.ok THEN [op |-> "error", slice |-> e.slice]
    ELSE LET q == EqualityFn(e.eq, e.slice, r.v) IN
         IF ~q.ok THEN [op |-> "error", slice |-> e.slice]
         ELSE IF ~q.v THEN [op |-> "call", slice |-> e.slice]
         ELSE [op |-> "skip", slice |-> e.slice]

ListenerToAdd(e, st) ==
    LET r == Selector(e.sel, st) IN
    IF ~r.ok THEN [op |-> "error", slice |-> e.slice]
    ELSE LET q == EqualityFn(e.eq, e.slice, r.v) IN
         IF ~q.ok THEN [op |-> "error", slice |-> e.slice]
         ELSE IF ~q.v THEN [op |-> "call", slice |-> r.v]
         ELSE [op |-> "skip", slice |-> e.slice]

\* faulty variant: no try/catch, the exception of the selector or of the
\* equality function leaves listenerToAdd, forEach and setState
AfterListenerToAddNoCatch(f, i, out) ==
    LET g == [f EXCEPT !.idx = i, !.vis = @ \cup {i}]
    IN IF out.op = "skip" THEN SetTop(g)
       ELSE IF out.op = "error" THEN Pop
       ELSE Append(SetTop(g), Frame("listener", i, "slice", Undef, NoRegs))

\* where control is after listenerToAdd has run for entry i of the pass f
AfterListenerToAdd(f, i, out) ==
    LET g == [f EXCEPT !.idx = i, !.vis = @ \cup {i},
                       !.errs = IF out.op = "error" THEN @ \cup {i} ELSE @]
    IN IF out.op = "skip" THEN SetTop(g)
       ELSE Append(SetTop(g), Frame("listener", i,
                IF out.op = "call" THEN "slice" ELSE "error", Undef, NoRegs))

\* one callback of listeners.forEach(listener => listener()) (line 62)
Notify ==
    /\ stack # <<>>
    /\ Top.kind = "pass"
    /\ Pending(Top, listeners) # {}
    /\ LET i == NextEntry(Top, listeners)
           out == ListenerToAdd(listeners[i], state)
       IN /\ listeners' = [listeners EXCEPT ![i].slice = out.slice]
          /\ stack' = AfterListenerToAdd(Top, i, out)
          /\ last' = Event(out.op, i, listeners[i].slice, FALSE)
    /\ UNCHANGED <<phase, state, nextRef, calls, initCalls, expect>>

\* forEach has no entry left: setState returns to its caller (line 64)
PassEnd ==
    /\ stack # <<>>
    /\ Top.kind = "pass"
    /\ Pending(Top, listeners) = {}
    /\ stack' = Pop
    /\ last' = [Event("passend", 0, Top.old, FALSE)
                    EXCEPT !.start = Top.start, !.vis = Top.vis, !.cut = Top.cut]
    /\ UNCHANGED <<phase, state, listeners, nextRef, calls, initCalls, expect>>

\* the user's listener returns to listenerToAdd, which returns to forEach
ListenerReturn ==
    /\ stack # <<>>
    /\ Top.kind = "listener"
    /\ stack' = Pop
    /\ last' = Event("return", Top.reg, Undef, FALSE)
    /\ UNCHANGED <<phase, state, listeners, nextRef, calls, initCalls, expect>>

\* the passes still running record that a pass started under them was ended
\* by an exception
MarkCut(st) ==
    [k \in 1..Len(st) |->
        IF st[k].kind = "pass" THEN [st[k] EXCEPT !.cut = TRUE] ELSE st[k]]

\* The user's listener throws.  Called at line 81 it is inside the try: the
\* catch of line 83 calls it again, as listener(null, error).  Called at
\* line 84 nothing catches: the exception leaves listenerToAdd, forEach and
\* setState, and reaches the user code that called setState.
ListenerThrow ==
    /\ stack # <<>>
    /\ Top.kind = "listener"
    /\ IF Top.mode = "slice"
       THEN /\ stack' = SetTop([Top EXCEPT !.mode = "error"])
            /\ last' = Event("catch", Top.reg, Undef, FALSE)
       ELSE /\ stack' = MarkCut(SubSeq(stack, 1, Len(stack) - 2))
            /\ last' = Event("escape", Top.reg, Undef, FALSE)
    /\ UNCHANGED <<phase, state, listeners, nextRef, calls, initCalls, expect>>

\* ------------------------------------------------- subscribe, unsubscribe
\* subscribe (lines 68-92).  selector(state) of line 73 is outside any try:
\* if it throws, subscribe throws and registers nothing.
Registration(sel, eq, slice) ==
    [st |-> "in", sel |-> sel, eq |-> eq, slice |-> slice]

\* faulty variant: the listener itself is the Set's entry, listeners.add(listener),
\* so that subscribing a listener that is in the registry adds nothing
SubscribeListenerAsEntry(sel, eq) ==
    /\ Call
    /\ LET r == Selector(sel, state) IN
        IF r.ok
        THEN /\ \/ listeners' = Append(listeners, Registration(sel, eq, r.v))
                \/ InSet(listeners) # {} /\ listeners' = listeners
             /\ last' = Event("subscribe", Len(listeners) + 1, r.v, FALSE)
        ELSE /\ UNCHANGED listeners
             /\ last' = Event("subthrow", 0, Undef, FALSE)
    /\ UNCHANGED <<phase, state, stack, nextRef, initCalls, expect>>

\* Each call makes its own closure listenerToAdd (line 74), and that closure
\* is what listeners.add stores (line 87): whether the caller's listener
\* function is already subscribed plays no part.
Subscribe(sel, eq) ==
    /\ Call
    /\ LET r == Selector(sel, state) IN
        IF r.ok
        THEN /\ listeners' = Append(listeners, Registration(sel, eq, r.v))
             /\ last' = Event("subscribe", Len(listeners) + 1, r.v, FALSE)
        ELSE /\ UNCHANGED listeners
             /\ last' = Event("subthrow", 0, Undef, FALSE)
    /\ UNCHANGED <<phase, state, stack, nextRef, initCalls, expect>>

\* faulty variant: the registry is an array and unsubscribe removes by slot, so
\* a stale unsubscribe removes the registration that took the slot
DeleteSlot(ls, i) ==
    LET later == {j \in InSet(ls) : j >= i}
    IN IF later = {} THEN ls
       ELSE LET k == CHOOSE j \in later : \A m \in later : j <= m
            IN [ls EXCEPT ![k].st = "deleted"]

\* listeners.delete(listenerToAdd) (line 89)
Delete(ls, i) == [ls EXCEPT ![i].st = IF @ = "in" THEN "deleted" ELSE @]

\* the unsubscribe function subscribe returned for registration i
Unsubscribe(i) ==
    /\ Call
    /\ i \in 1..Len(listeners)
    /\ listeners' = Delete(listeners, i)
    /\ last' = Event("unsubscribe", i, Undef, FALSE)
    /\ UNCHANGED <<phase, state, stack, nextRef, initCalls, expect>>

\* faulty variant: destroy leaves the registry as it is
ClearNothing(ls) == ls

\* listeners.clear() (line 94)
Clear(ls) == [i \in 1..Len(ls) |-> [ls[i] EXCEPT !.st = IF @ = "in" THEN "cleared" ELSE @]]

Destroy ==
    /\ Call
    /\ listeners' = Clear(listeners)
    /\ last' = Event("destroy", 0, Undef, FALSE)
    /\ UNCHANGED <<phase, state, stack, nextRef, initCalls, expect>>

\* ------------------------------------------------- the adapter (useStore)
\* useStore (lines 96-134) hands the framework's subscription primitive an
\* object with getCurrentValue and subscribe.  The framework is the
\* environment here: it renders (useMemo builds the object), registers its
\* callback, and reads getCurrentValue at a render or inside its callback.
\* The callback itself calls nothing of the store and returns.
HookSubscriptions ==
    {<<"getState", "is">>, <<"a", "is">>, <<"a", "close">>, <<"b", "is">>,
     <<"bu", "is">>}

\* the body of useMemo (lines 101-103): selector(state) is outside any try,
\* if it throws the render throws and no object is made
UseMemo(sel, eq) ==
    /\ phase = "ready"
    /\ stack = <<>>
    /\ ~hook.made
    /\ Selector(sel, state).ok
    /\ hook' = [NoHook EXCEPT !.made = TRUE, !.sel = sel, !.eq = eq,
                              !.slice = Selector(sel, state).v]
    /\ last' = Event("usememo", 0, Selector(sel, state).v, FALSE)
    /\ UNCHANGED <<phase, state, listeners, stack, nextRef, calls, initCalls,
                   expect, two>>

\* subscription.subscribe(callback) (lines 119-130): the adapter's listener
\* is registered with the store's subscribe, which caches selector(state)
\* of this moment for the registration (line 73)
SubscriptionSubscribe ==
    /\ hook.made
    /\ hook.reg = 0
    /\ stack = <<>>
    /\ Subscribe(hook.sel, hook.eq)
    /\ hook' = [hook EXCEPT !.reg = IF last'.op = "subscribe" THEN last'.reg ELSE 0]
    /\ UNCHANGED two

\* the adapter's listener is on top of the stack
HookRunning ==
    /\ stack # <<>>
    /\ Top.kind = "listener"
    /\ Top.reg = hook.reg

\* what the catch of line 83 caught for registration e: the value the
\* selector threw, or else the one the equality function threw
Caught(e, st) ==
    LET r == Selector(e.sel, st) IN
    IF ~r.ok THEN r.v ELSE EqualityFn(e.eq, e.slice, r.v).v

\* the listener of lines 120-125, called with (nextSlice, error)
Listener(h, nextSlice, error) ==
    IF Truthy(error) THEN [h EXCEPT !.errored = TRUE, !.ran = TRUE]
    ELSE [h EXCEPT !.slice = nextSlice, !.ran = TRUE]

\* listenerToAdd has called the adapter's listener, with the new slice
\* (line 81) or with (null, error) (line 84); the listener runs up to its
\* call of callback (line 126)
HookListener ==
    /\ HookRunning
    /\ ~hook.ran
    /\ LET e == listeners[hook.reg]
           nextSlice == IF Top.mode = "slice" THEN e.slice ELSE Null
           error == IF Top.mode = "slice" THEN Undef ELSE Caught(e, state)
       IN /\ hook' = Listener(hook, nextSlice, error)
          /\ last' = Event("listener", hook.reg, nextSlice, FALSE)
    /\ UNCHANGED <<phase, state, listeners, stack, nextRef, calls, initCalls,
                   expect, two>>

\* callback returns, and with it the listener
CallbackReturn ==
    /\ HookRunning
    /\ hook.ran
    /\ ListenerReturn
    /\ hook' = [hook EXCEPT !.ran = FALSE]
    /\ UNCHANGED two

\* faulty variant: getCurrentValue without the try/catch of lines 105-116
GetCurrentValueNoCatch(h, st) ==
    IF h.errored
    THEN LET r == Selector(h.sel, st) IN
         IF ~r.ok THEN r
         ELSE LET q == EqualityFn(h.eq, h.slice, r.v) IN
              IF ~q.ok THEN q
              ELSE IF q.v THEN Ret(h.slice) ELSE Ret(r.v)
    ELSE Ret(h.slice)

\* getCurrentValue (lines 104-118): what it hands to its caller.  The catch
\* of line 114 swallows what the selector or the equality function throws,
\* and line 117 returns the cached slice.
GetCurrentValue(h, st) ==
    IF h.errored
    THEN LET r == Selector(h.sel, st) IN
         IF ~r.ok THEN Ret(h.slice)
         ELSE LET q == EqualityFn(h.eq, h.slice, r.v) IN
              IF ~q.ok THEN Ret(h.slice)
              ELSE IF q.v THEN Ret(h.slice) ELSE Ret(r.v)
    ELSE Ret(h.slice)

\* the framework reads getCurrentValue, at a render or inside its callback;
\* errored is reset before the selector is called (line 107)
Read ==
    /\ hook.made
    /\ \/ phase = "ready" /\ stack = <<>>
       \/ HookRunning /\ hook.ran
    /\ hook' = [hook EXCEPT !.errored = FALSE,
                            !.rd = [was |-> hook.errored,
                                    ret |-> GetCurrentValue(hook, state)]]
    /\ last' = Event("read", hook.reg, hook.slice, FALSE)
    /\ UNCHANGED <<phase, state, listeners, stack, nextRef, calls, initCalls,
                   expect, two>>

\* the function subscription.subscribe returned (line 129)
HookUnsubscribe ==
    /\ hook.reg # 0
    /\ stack = <<>>
    /\ Unsubscribe(hook.reg)
    /\ UNCHANGED <<hook, two>>

\* the store, one component that uses it through useStore, and code that
\* calls setState from top level or from the initializer
NextHook ==
    \/ Create /\ UNCHANGED <<hook, two>>
    \/ \E c \in InitObjs : InitReturn(c) /\ UNCHANGED <<hook, two>>
    \/ \E p \in Partials, replace \in BOOLEAN :
            ~HookRunning /\ SetState(p, replace) /\ UNCHANGED <<hook, two>>
    \/ Notify /\ UNCHANGED <<hook, two>>
    \/ PassEnd /\ UNCHANGED <<hook, two>>
    \/ \E p \in HookSubscriptions : UseMemo(p[1], p[2])
    \/ SubscriptionSubscribe
    \/ HookListener
    \/ CallbackReturn
    \/ Read
    \/ HookUnsubscribe

SpecHook == Init /\ [][NextHook]_vars

\* ------------------------------------------------------------- two stores
\* create called twice.  Every call runs lines 51-52 anew, so each store has
\* a state variable and a registry of its own: the api of store i works on
\* cell Cell(i).  The listeners of this scenario return without calling a
\* store, so a setState call with its whole pass is one step.
\* faulty variant: state and listeners declared outside create, one cell
\* for every store
CellShared(i) == 1

Cell(i) == i

\* what store i holds: getState() and the registry
View(t, i) == [state |-> t.cells[Cell(i)].state,
               listeners |-> t.cells[Cell(i)].listeners]

TwoPartials ==
    {p \in Partials : p.kind \in {"obj", "fnVoid"} /\ p.c # Content(2, Absent)}
TwoSubscriptions == {<<"getState", "is">>, <<"b", "is">>}

\* a step of the api of store i
Step(i) == i \in two.made /\ two.steps < MaxCalls

\* listeners.forEach (line 62) over listeners that only return: the caches
\* after the pass, and the registrations whose listener was called
PassOver(ls, st) ==
    [k \in 1..Len(ls) |->
        IF ls[k].st = "in"
        THEN [ls[k] EXCEPT !.slice = ListenerToAdd(ls[k], st).slice]
        ELSE ls[k]]
CalledIn(ls, st) == {k \in InSet(ls) : ListenerToAdd(ls[k], st).op # "skip"}

\* create (lines 48-53, 136-139) with an initializer that returns {a: 0, b: 0}
CreateOn(i) ==
    /\ i \notin two.made
    /\ two' = [two EXCEPT
            !.made = @ \cup {i},
            !.cells[Cell(i)] = [state |-> Obj(two.ref, Content(0, 0)),
                                listeners |-> <<>>, owner |-> <<>>],
            !.ref = @ + 1,
            !.acted = [store |-> i, op |-> "create", called |-> {}]]

SetStateOn(i, partial, replace) ==
    /\ Step(i)
    /\ LET cell == two.cells[Cell(i)]
           next == NextState(partial, cell.state, two.ref)
           st == NewState(cell.state, next, replace, two.ref)
       IN IF Changed(cell.state, next)
          THEN two' = [two EXCEPT
                  !.cells[Cell(i)].state = st,
                  !.cells[Cell(i)].listeners = PassOver(cell.listeners, st),
                  !.ref = IF st.t = "obj" THEN @ + 1 ELSE @,
                  !.steps = @ + 1,
                  !.acted = [store |-> i, op |-> "set",
                             called |-> {cell.owner[k] : k \in CalledIn(cell.listeners, st)}]]
          ELSE two' = [two EXCEPT
                  !.steps = @ + 1,
                  !.acted = [store |-> i, op |-> "setskip", called |-> {}]]

SubscribeOn(i, sel, eq) ==
    /\ Step(i)
    /\ LET cell == two.cells[Cell(i)]
           r == Selector(sel, cell.state)
       IN IF r.ok
          THEN two' = [two EXCEPT
                  !.cells[Cell(i)].listeners = Append(@, Registration(sel, eq, r.v)),
                  !.cells[Cell(i)].owner = Append(@, i),
                  !.steps = @ + 1,
                  !.acted = [store |-> i, op |-> "subscribe", called |-> {}]]
          ELSE two' = [two EXCEPT
                  !.steps = @ + 1,
                  !.acted = [store |-> i, op |-> "subthrow", called |-> {}]]

\* the unsubscribe function that store i returned for its registration k
UnsubscribeOn(i, k) ==
    /\ Step(i)
    /\ k \in 1..Len(two.cells[Cell(i)].listeners)
    /\ two.cells[Cell(i)].owner[k] = i
    /\ two' = [two EXCEPT
            !.cells[Cell(i)].listeners = Delete(@, k),
            !.steps = @ + 1,
            !.acted = [store |-> i, op |-> "unsubscribe", called |-> {}]]

DestroyOn(i) ==
    /\ Step(i)
    /\ two' = [two EXCEPT
            !.cells[Cell(i)].listeners = Clear(@),
            !.steps = @ + 1,
            !.acted = [store |-> i, op |-> "destroy", called |-> {}]]

NextTwo ==
    \/ \E i \in Stores : CreateOn(i) /\ UNCHANGED <<store, hook>>
    \/ \E i \in Stores, p \in TwoPartials, replace \in BOOLEAN :
            SetStateOn(i, p, replace) /\ UNCHANGED <<store, hook>>
    \/ \E i \in Stores, p \in TwoSubscriptions :
            SubscribeOn(i, p[1], p[2]) /\ UNCHANGED <<store, hook>>
    \/ \E i \in Stores, k \in 1..MaxCalls :
            UnsubscribeOn(i, k) /\ UNCHANGED <<store, hook>>
    \/ \E i \in Stores : DestroyOn(i) /\ UNCHANGED <<store, hook>>

SpecTwo == Init /\ [][NextTwo]_vars

\* ------------------------------------------------------------------- spec
\* the store and its callers, without the adapter
Next ==
    \/ Create /\ UNCHANGED <<hook, two>>
    \/ \E c \in InitObjs : InitReturn(c) /\ UNCHANGED <<hook, two>>
    \/ \E p \in Partials, replace \in BOOLEAN :
            SetState(p, replace) /\ UNCHANGED <<hook, two>>
    \/ Notify /\ UNCHANGED <<hook, two>>
    \/ PassEnd /\ UNCHANGED <<hook, two>>
    \/ ListenerReturn /\ UNCHANGED <<hook, two>>
    \/ ListenerThrow /\ UNCHANGED <<hook, two>>
    \/ \E p \in Subscriptions : Subscribe(p[1], p[2]) /\ UNCHANGED <<hook, two>>
    \/ \E i \in 1..Len(listeners) : Unsubscribe(i) /\ UNCHANGED <<hook, two>>
    \/ Destroy /\ UNCHANGED <<hook, two>>

Spec == Init /\ [][Next]_vars

\* ------------------------------------------------------------------ claims
\* what listenerToAdd did in the last step, and the pass it ran in
Notified == last.op \in {"call", "skip", "error"}
Invoked == last.op \in {"call", "error"}
NotifyPass == IF Top.kind = "pass" THEN Top ELSE stack[Len(stack) - 1]
Reg == listeners[last.reg]
\* e(x, y) evaluates to true / to false (it does neither when it throws)
Equal(e, x, y) == EqualityFn(e, x, y).ok /\ EqualityFn(e, x, y).v
Differ(e, x, y) == EqualityFn(e, x, y).ok /\ ~EqualityFn(e, x, y).v

\* C1, as stated, for the selector s => s.a, a registration that was in the
\* registry when setState was called, and a setState called from top level:
\* whenever s and e evaluate, the listener is invoked if and only if
\* e(s(oldState), s(newState)) is false.
C1_InvokedIffSlicesDiffer ==
    (Notified /\ Reg.sel = "a" /\ Len(stack) <= 2 /\ last.reg \in NotifyPass.start)
    => LET old == Selector(Reg.sel, NotifyPass.old)
           new == Selector(Reg.sel, state)
       IN (old.ok /\ new.ok /\ EqualityFn(Reg.eq, old.v, new.v).ok)
          => (Invoked <=> Differ(Reg.eq, old.v, new.v))

\* C1, amended: at a notification the listener is invoked with the new slice
\* if and only if e(c, s(newState)) is false, where c is the slice the
\* registration has cached (last.v: the slice of subscribe time or the last
\* slice delivered); it is not invoked when e(c, s(newState)) is true, and
\* it is invoked with (null, error) when s or e throws.
C1_InvokedIffCacheDiffers ==
    Notified
    => LET new == Selector(Reg.sel, state) IN
       /\ (last.op = "call") <=> (new.ok /\ Differ(Reg.eq, last.v, new.v))
       /\ (last.op = "skip") <=> (new.ok /\ Equal(Reg.eq, last.v, new.v))
       /\ Invoked <=> (Top.kind = "listener" /\ Top.reg = last.reg)
       /\ (last.op = "call") => (Top.mode = "slice" /\ Reg.slice = new.v)

\* the listener is invoked although e(s(oldState), s(newState)) is true
C1_Witness ==
    /\ last.op = "call"
    /\ last.reg \in NotifyPass.start
    /\ Selector(Reg.sel, NotifyPass.old).ok
    /\ Equal(Reg.eq, Selector(Reg.sel, NotifyPass.old).v, Reg.slice)

\* C2: while every setState call since create returned had replace falsy and
\* an object as its candidate, the held state is an object whose content is
\* the fold of the candidates over the initial state: the union of the key
\* sets, each key with the value of the last candidate that contained it.
C2_MergeFold ==
    expect.pure => (state.t = "obj" /\ state.o = expect.c)

\* three merging calls were accepted: b was added, a was overridden twice
C2_Witness ==
    /\ expect.pure
    /\ nextRef = 5
    /\ stack = <<>>
    /\ state.o = Content(2, 1)

\* C4: a setState call whose candidate is the current state itself changes
\* neither the state nor the registry and starts no notification pass,
\* whatever replace is.
C4_SameReferenceSkipped ==
    [][(last'.op \in {"set", "setskip"} /\ last'.v = state)
       => (last'.op = "setskip" /\ state' = state /\ listeners' = listeners
           /\ stack' = stack)]_vars

\* setState(getState(), true) was skipped with a registration in the registry
C4_Witness ==
    /\ last.op = "setskip"
    /\ last.replace
    /\ last.v = state
    /\ state.t = "obj"
    /\ InSet(listeners) # {}

\* C5: when setState(x, true) with x not the current state has assigned the
\* state (line 58), the held state is x itself: no key of the old state
\* survives unless x has it.
C5_ReplaceWholesale ==
    (last.op = "set" /\ last.replace) => state = last.v

\* x replaced a state that had a key x has not
C5_Witness ==
    /\ last.op = "set"
    /\ last.replace
    /\ state.t = "obj"
    /\ \E k \in Keys : Top.old.o[k] # Absent /\ state.o[k] = Absent

\* C9: when the selector or the equality function throws in a notification,
\* the registration's cached slice is the one it had before (last.v).
C9_CacheKeptOnError ==
    last.op = "error" => Reg.slice = last.v

\* the equality function threw on a slice the selector had computed
C9_Witness ==
    /\ last.op = "error"
    /\ Selector(Reg.sel, state).ok
    /\ Reg.slice.t = "num"

\* C10: createState is invoked exactly once, while create runs, and when
\* create returns the held state is the value createState returned, also
\* when createState called setState before.
C10_InitializerOnce ==
    /\ phase = "new" => initCalls = 0
    /\ phase # "new" => initCalls = 1
    /\ last.op = "initret" => (state = last.v /\ phase = "ready" /\ stack = <<>>)

\* create returned after the initializer had a setState call accepted
C10_Witness ==
    /\ last.op = "initret"
    /\ nextRef > 2
    /\ state = last.v

\* every registration in the registry when a pass ends was processed in it
PassComplete == last.op = "passend" => InSet(listeners) \subseteq last.vis

C6_NoCallAfterUnsubscribe ==
    Notified => Reg.st = "in"

\* a pass ended without processing a registration that was in the registry
\* when the pass started and was unsubscribed by a listener during the pass
C6_Witness ==
    /\ last.op = "passend"
    /\ \E i \in last.start \ last.vis : listeners[i].st = "deleted"
    /\ last.vis # {}

\* C7: destroy empties the registry and changes neither the state nor the
\* stack, and changes nothing at all when the registry is empty; a
\* registration removed by destroy is never processed again; an accepted
\* setState changes the state whatever the registry holds; and a pass
\* processes every registration in the registry, those made after a destroy
\* included.
C7_Destroy ==
    [][/\ last'.op = "destroy"
          => /\ state' = state /\ stack' = stack
             /\ InSet(listeners') = {}
             /\ InSet(listeners) = {} => listeners' = listeners
       /\ last'.op \in {"call", "skip", "error"}
          => listeners'[last'.reg].st = "in"
       /\ last'.op = "set" => state' # state
       /\ last'.op = "passend" => InSet(listeners') \subseteq last'.vis]_vars

\* a registration made after a destroy is called with its new slice, and
\* the registration made before the destroy was not processed in that pass
C7_Witness ==
    /\ last.op = "call"
    /\ \E i \in 1..Len(listeners) :
        /\ i < last.reg
        /\ listeners[i].st = "cleared"
        /\ i \notin NotifyPass.vis
    /\ state # NotifyPass.old

\* C8: a setState that a listener calls assigns the state at once and starts
\* its own pass at the first entry of the registry; while a pass runs above
\* it, an outer pass stays at the entry whose listener is running; and a
\* pass that ends has processed every registration in the registry.
C8_NestedPass ==
    /\ \A k \in 1..(Len(stack) - 1) :
        /\ stack[k].kind = "pass"
           => (stack[k + 1].kind = "listener" /\ stack[k + 1].reg = stack[k].idx)
        /\ stack[k].kind = "listener" => stack[k + 1].kind = "pass"
    /\ last.op = "set"
       => /\ Top.kind = "pass" /\ Top.idx = 0 /\ Top.vis = {}
          /\ Top.start = InSet(listeners)
          /\ state # Top.old
          /\ state = NewState(Top.old, last.v, last.replace, state.n)
    /\ PassComplete

\* a nested pass has ended after processing registrations, and control is
\* back in the listener that called setState, the outer pass still at it
C8_Witness ==
    /\ last.op = "passend"
    /\ last.vis # {}
    /\ Len(stack) = 2
    /\ Top.kind = "listener"
    /\ stack[1].kind = "pass"
    /\ stack[1].idx = Top.reg
    /\ Pending(stack[1], listeners) # {}

\* C11: a call of an unsubscribe function removes its own registration and
\* no other, and changes neither the state nor the running passes; called
\* for a registration that is no longer in the registry (a second call, or a
\* call after destroy, also with registrations made since) it changes
\* nothing.
C11_UnsubscribeOwnOnly ==
    [][last'.op = "unsubscribe"
       => /\ state' = state /\ stack' = stack
          /\ Len(listeners') = Len(listeners)
          /\ \A j \in 1..Len(listeners) :
                j # last'.reg => listeners'[j] = listeners[j]
          /\ InSet(listeners') = InSet(listeners) \ {last'.reg}
          /\ listeners[last'.reg].st # "in" => listeners' = listeners]_vars

\* an unsubscribe function was called after destroy had removed its
\* registration, and the registration made after the destroy is in the registry
C11_Witness ==
    /\ last.op = "unsubscribe"
    /\ listeners[last.reg].st = "cleared"
    /\ \E j \in InSet(listeners) : j > last.reg

\* C14, as stated: a setState call whose updater function returns nothing
\* (candidate undefined) leaves the held state as it is and starts no
\* notification pass, so no subscriber is invoked.
C14_VoidUpdaterNoChange ==
    [][(last'.op \in {"set", "setskip"} /\ last'.v = Undef)
       => (state' = state /\ stack' = stack)]_vars

\* C17: every subscribe call that returns adds one entry of its own to the
\* registry, whatever the registry holds; an entry leaves the registry only
\* by its own unsubscribe or by destroy, so the entries in the registry are
\* the subscribe calls since the last destroy whose unsubscribe has not been
\* called; and the registrations with the same selector and equality
\* function are each called in a pass: when one is called with the new
\* slice (the only setState so far), those processed before it hold that
\* slice too.
C17_EntryPerSubscribe ==
    [][/\ last'.op = "subscribe"
          => /\ listeners' = Append(listeners, listeners'[Len(listeners')])
             /\ last'.reg = Len(listeners')
             /\ InSet(listeners') = InSet(listeners) \cup {last'.reg}
             /\ last'.reg \notin InSet(listeners)
       /\ last'.op = "unsubscribe"
          => InSet(listeners') = InSet(listeners) \ {last'.reg}
       /\ last'.op = "destroy" => InSet(listeners') = {}
       /\ last'.op \notin {"subscribe", "unsubscribe", "destroy"}
          => InSet(listeners') = InSet(listeners)
       /\ (last'.op = "call" /\ calls' = Len(listeners') + 1)
          => \A i \in stack'[Len(stack') - 1].vis :
                (listeners'[i].sel = listeners'[last'.reg].sel
                 /\ listeners'[i].eq = listeners'[last'.reg].eq)
                => listeners'[i].slice = listeners'[last'.reg].slice]_vars

\* two registrations with the same selector and equality function, made on
\* the same state, have both been called with the new slice in one pass
C17_Witness ==
    /\ last.op = "call"
    /\ last.reg = 2
    /\ InSet(listeners) = {1, 2}
    /\ listeners[1].sel = listeners[2].sel
    /\ listeners[1].eq = listeners[2].eq
    /\ last.v # Reg.slice
    /\ listeners[1].slice = Reg.slice
    /\ 1 \in NotifyPass.vis

\* C19, as stated: in one notification of one registration the listener is
\* called at most once, and a listener that is running a (null, error) call
\* is one whose selector or equality function threw in that notification.
C19_OneCallPerNotification ==
    \A k \in 2..Len(stack) :
        (stack[k].kind = "listener" /\ stack[k].mode = "error")
        => (stack[k].reg \in stack[k - 1].errs /\ last.op # "catch")

\* C20: a listener called with a slice is called with the selector applied
\* to the state held at that moment, which is the state accepted last (for
\* the identity selector: the object allocated last), in whatever pass the
\* call is made; a state superseded before the listener was reached is
\* never delivered.
C20_SliceOfCurrentState ==
    last.op = "call"
    => /\ Selector(Reg.sel, state).ok
       /\ Reg.slice = Selector(Reg.sel, state).v
       /\ Top.kind = "listener" /\ Top.reg = last.reg /\ Top.mode = "slice"
       /\ (Reg.sel = "getState" /\ state.t = "obj") => Reg.slice.n = nextRef - 1

\* a nested pass calls a listener that the outer pass has not reached: the
\* listener gets the slice of the latest state and skips the outer one
C20_Witness ==
    /\ last.op = "call"
    /\ Len(stack) = 4
    /\ last.reg \in stack[1].start \ stack[1].vis
    /\ state # stack[3].old

\* a registration is fresh: its equality function judges its cached slice
\* equal to the selector of the held state (or one of the two throws)
Fresh(e) ==
    LET r == Selector(e.sel, state) IN
    (r.ok /\ EqualityFn(e.eq, e.slice, r.v).ok) => Equal(e.eq, e.slice, r.v)

\* the last step was the return of a setState call that no pass encloses
OutermostReturn ==
    /\ last.op = "passend"
    /\ \A k \in 1..Len(stack) : stack[k].kind # "pass"

ThrowsAgain ==
    LET r == Selector(hook.sel, state) IN
    ~r.ok \/ ~EqualityFn(hook.eq, hook.slice, r.v).ok

\* C12, as stated, for the selector that throws an Error object: called
\* with (null, error) the adapter's listener sets errored and invokes the
\* callback; and a read of getCurrentValue with errored set, in which the
\* selector throws again, raises that exception to its caller.
C12_ReadRaises ==
    hook.sel = "b"
    => /\ (last.op = "listener" /\ Top.mode = "error")
          => (hook.errored /\ hook.ran)
       /\ (last.op = "read" /\ hook.rd.was /\ ThrowsAgain) => ~hook.rd.ret.ok

\* C12, amended: called with (null, error) the adapter's listener invokes
\* the callback, and sets errored when the value thrown is truthy; a read
\* of getCurrentValue with errored set, in which the selector or the
\* equality function throws again, raises nothing: it returns the cached
\* slice and leaves errored reset.
C12_ReadSwallows ==
    /\ (last.op = "listener" /\ Top.mode = "error")
       => /\ hook.ran
          /\ Truthy(Caught(listeners[hook.reg], state)) => hook.errored
    /\ (last.op = "read" /\ hook.rd.was /\ ThrowsAgain)
       => (hook.rd.ret = Ret(hook.slice) /\ ~hook.errored)

\* inside the callback of an error notification the framework has read
\* getCurrentValue, and the selector threw again
C12_Witness ==
    /\ last.op = "read"
    /\ hook.rd.was
    /\ ThrowsAgain
    /\ HookRunning
    /\ Top.mode = "error"

\* C13, as stated: the adapter's cached slice is changed only by a
\* notification that carries a slice, which sets it to that slice (the one
\* the registration caches); an error notification, whatever was thrown,
\* and a read of getCurrentValue leave it as it is.
C13_CacheOnlyBySlice ==
    [][(hook.made /\ hook'.slice # hook.slice)
       => /\ last'.op = "listener"
          /\ Top.mode = "slice"
          /\ hook'.slice = listeners[hook.reg].slice]_vars

\* C16, as stated, for the default selector and the default equality
\* function: once the adapter is registered, a read of getCurrentValue made
\* while no setState call is running returns selector(getState()).
C16_ReadIsCurrent ==
    (/\ last.op = "read"
     /\ stack = <<>>
     /\ hook.sel = "getState" /\ hook.eq = "is"
     /\ hook.reg # 0
     /\ listeners[hook.reg].st = "in")
    => hook.rd.ret = Ret(state)

\* C15: an operation of one store leaves what the other store holds (its
\* state and its registry, cached slices included) as it was, and the
\* listeners that a setState call invokes were all registered on the store
\* it was called on.
C15_StoresIndependent ==
    [][two'.acted # two.acted \/ two'.steps # two.steps
       => /\ \A j \in Stores \ {two'.acted.store} : View(two', j) = View(two, j)
          /\ two'.acted.called \subseteq {two'.acted.store}]_vars

\* a setState of store 1 has invoked the listener registered on store 1,
\* while store 2 holds a registration and a state of its own
C15_Witness ==
    /\ two.made = Stores
    /\ two.acted.store = 1
    /\ two.acted.op = "set"
    /\ two.acted.called = {1}
    /\ InSet(View(two, 2).listeners) # {}
    /\ View(two, 2).state.o # View(two, 1).state.o
    /\ View(two, 2).state.n > 2

====
